---- MODULE Spec2Model ----
(***************************************************************************)
(* express-jwtoken: the JwtEngine middleware (src/src/lib/main/jwtEngine.ts)*)
(* as a state machine.  One slot per in-flight request; each slot walks    *)
(* through the middleware returned by generateEngine (verify, attach,      *)
(* next), then through the downstream handler, which may call              *)
(* res.authenticate / res.deauthenticate, and ends when the response is    *)
(* sent and the client applies what the response tells it to store.        *)
(*                                                                         *)
(* The suspension points of the async functions are the pc values: between *)
(* two awaits a function runs without interleaving.                        *)
(*                                                                         *)
(* jsonwebtoken (jwt.sign / jwt.verify) is modelled at its interface: a    *)
(* signed token is a record carrying the payload, the algorithm, the key   *)
(* it was signed with and its validity window; verify checks the signature *)
(* against the public key, the algorithm list and the window.              *)
(***************************************************************************)
EXTENDS Integers, Sequences, FiniteSets, TLC

VARIABLES
    givenOptions, \* the options generateEngine is called with
    engine,       \* JwtEngine._options (readonly), the result of processOptions
    parallel,     \* how many requests the host lets the middleware serve at once
    now,          \* the clock jwt.sign and jwt.verify read
    clientTok,    \* the primary token the client holds (cookie jar / header store)
    clientMod,    \* TRUE when the client holds a modifier token
    clientSrc,    \* history: how the request ended whose response the client applied last
    pc,           \* per request: position in the middleware / handler
    reqTransport, \* per request: what the request carries where the transport looks
    reqMod,       \* per request: TRUE when the request carries a modifier token
    reqSrc,       \* history: clientSrc when the request was sent, and how it was sent
    token,        \* req.token
    signedToken,  \* req.signedToken
    resTok,       \* what the response tells the client about the primary token
    resMod,       \* what the response tells the client about the modifier token
    hookLog,      \* the raw tokens onNotValidToken was invoked with, in order
    attached,     \* TRUE when res.authenticate / res.deauthenticate are attached
    nextCalled,   \* TRUE when next() was called
    authArg,      \* the payload passed to the res.authenticate call in progress
    pending,      \* the token jwt.sign is producing for that call
    lastOp,       \* history: the last operation completed on the request
    resolved,     \* history: what verify resolved the request to
    ops           \* number of handler calls made on the request

vars == << givenOptions, engine, parallel, now, clientTok, clientMod, clientSrc, pc,
           reqTransport, reqMod, reqSrc, token, signedToken, resTok, resMod, hookLog, attached, nextCalled,
           authArg, pending, lastOp, resolved, ops >>

(***************************************************************************)
(* Bounds                                                                  *)
(***************************************************************************)
MaxTime == 2
MaxOps == 2

\* Request slots; a request takes the lowest free slot.
Requests == {1, 2}

(***************************************************************************)
(* Values                                                                  *)
(***************************************************************************)
Null == [k |-> "null"]
Undefined == [k |-> "undefined"]
SigningError == [k |-> "SigningError"]

\* Identity payloads: finite maps from claim names to values, as sets of pairs.
EmptyPayload == {}
PayloadA == {<<"user", "a">>, <<"role", "x">>}
Payloads == {EmptyPayload, PayloadA}

Payload(p) == [k |-> "payload", claims |-> p]

IsToken(t) == t.k = "jwt"

\* Key material.  A symmetric secret verifies what it signed; the private key
\* "priv1" is verified by the public key "pub1".
RandomKeys == {"rnd1", "rnd2"}
FirstRandom == "rnd1"

PublicOf(priv) == IF priv = "priv1" THEN "pub1" ELSE priv

\* The default of expiresIn ('1 day') in clock ticks of the model.
DefaultExpiresIn == 2

\* The options the engine is constructed with: "" and 0 are absent (falsy) values.
OptionSets ==
    { [publicKey |-> "", privateKey |-> "", secretKey |-> "", algorithm |-> "",
       expiresIn |-> 0, notBefore |-> 0, clientTokenEngine |-> ""],
      [publicKey |-> "", privateKey |-> "", secretKey |-> "s1", algorithm |-> "",
       expiresIn |-> 1, notBefore |-> 0, clientTokenEngine |-> ""],
      [publicKey |-> "", privateKey |-> "", secretKey |-> "s1", algorithm |-> "",
       expiresIn |-> 0, notBefore |-> 1, clientTokenEngine |-> ""],
      [publicKey |-> "pub1", privateKey |-> "priv1", secretKey |-> "", algorithm |-> "RS256",
       expiresIn |-> 0, notBefore |-> 0, clientTokenEngine |-> "header"] }

(***************************************************************************)
(* JwtEngine.processOptions and the constructor                            *)
(***************************************************************************)
\* A processOptions that falls back to a key built into the library.
processOptionsBuiltInKey(options, rnd) ==
    LET pair == options.publicKey # "" /\ options.privateKey # ""
        secretKey == IF options.secretKey # "" THEN options.secretKey ELSE "builtin"
    IN [publicKey |-> IF pair THEN options.publicKey ELSE secretKey,
        privateKey |-> IF pair THEN options.privateKey ELSE secretKey,
        algorithm |-> IF options.algorithm # "" THEN options.algorithm ELSE "HS256",
        expiresIn |-> IF options.expiresIn # 0 THEN options.expiresIn ELSE DefaultExpiresIn,
        notBefore |-> options.notBefore,
        clientTokenEngine |-> IF options.clientTokenEngine # ""
                              THEN options.clientTokenEngine ELSE "cookie"]

processOptions(options, rnd) ==
    LET pair == options.publicKey # "" /\ options.privateKey # ""
        secretKey == IF options.secretKey # "" THEN options.secretKey ELSE rnd
    IN [publicKey |-> IF pair THEN options.publicKey ELSE secretKey,
        privateKey |-> IF pair THEN options.privateKey ELSE secretKey,
        algorithm |-> IF options.algorithm # "" THEN options.algorithm ELSE "HS256",
        expiresIn |-> IF options.expiresIn # 0 THEN options.expiresIn ELSE DefaultExpiresIn,
        notBefore |-> options.notBefore,
        clientTokenEngine |-> IF options.clientTokenEngine # ""
                              THEN options.clientTokenEngine ELSE "cookie"]

\* A sign call that leaves the algorithm to the signer's default.
signOptionsDefaultAlgorithm(e) ==
    [algorithm |-> "HS256", expiresIn |-> e.expiresIn,
     notBefore |-> IF e.notBefore # 0 THEN e.notBefore ELSE 0]

signOptions(e) ==
    [algorithm |-> e.algorithm, expiresIn |-> e.expiresIn,
     notBefore |-> IF e.notBefore # 0 THEN e.notBefore ELSE 0]

verifyOptions(e) == [algorithms |-> {e.algorithm}]

(***************************************************************************)
(* The Signer (jsonwebtoken), at its interface                             *)
(***************************************************************************)
jwtSign(p, privateKey, so, t) ==
    [k |-> "jwt", pl |-> p, alg |-> so.algorithm, sig |-> privateKey,
     nbf |-> t + so.notBefore, exp |-> t + so.expiresIn]

\* A verify that decodes the token without checking its signature.
jwtDecodeOnly(st, publicKey, vo, t) ==
    /\ IsToken(st)
    /\ st.nbf <= t
    /\ t < st.exp

\* A verify that ignores the expiry.
jwtVerifyIgnoreExpiration(st, publicKey, vo, t) ==
    /\ IsToken(st)
    /\ PublicOf(st.sig) = publicKey
    /\ st.alg \in vo.algorithms
    /\ st.nbf <= t

jwtVerifyOk(st, publicKey, vo, t) ==
    /\ IsToken(st)
    /\ PublicOf(st.sig) = publicKey
    /\ st.alg \in vo.algorithms
    /\ st.nbf <= t
    /\ t < st.exp

\* One byte of the signed token changed: the signature no longer matches.
Tamper(st) == [st EXCEPT !.sig = "bad"]

(***************************************************************************)
(* The token transport (ClientTokenEngine): cookie and header variants     *)
(***************************************************************************)
NoDirective == [k |-> "none"]

getToken(cte, carried) == IF IsToken(carried) THEN carried ELSE Null

setToken(cte, st, p, res) == [k |-> "set", tok |-> st]

removeToken(cte, res) == IF cte = "cookie" THEN [k |-> "clear"] ELSE res

\* What the client stores once the response has arrived.
ApplyResponse(res, held) ==
    IF res.k = "set" THEN res.tok ELSE IF res.k = "clear" THEN Null ELSE held

(***************************************************************************)
(* The modifier-token engine, as a caller layers it on top of the engine   *)
(***************************************************************************)
mteIssue(res) == "issue"

mteRemove(res) == "remove"

\* ModifierTokenEngine.validate(request): the request carries the modifier token.
mteValidate(carried) == carried

ApplyModifier(res, held) ==
    IF res = "issue" THEN TRUE ELSE IF res = "remove" THEN FALSE ELSE held

(***************************************************************************)
(* Resolved identity state, as encoded by req.token and req.signedToken    *)
(***************************************************************************)
StateOf(tk, st) ==
    IF tk = Undefined \/ st = Undefined THEN "Unresolved"
    ELSE IF tk # Null THEN "Authenticated"
    ELSE IF st # Null THEN "Invalid"
    ELSE "Unauthenticated"

State(r) == StateOf(token[r], signedToken[r])

\* AccessPredicates.requireAuthenticated: passes on Authenticated only.
reqAuthenticated(tk, st) == StateOf(tk, st) = "Authenticated"

NoOp == [op |-> "none", arg |-> Null, ret |-> Null, was |-> Null]

Op(name) == [NoOp EXCEPT !.op = name]

NoSrc == [op |-> "none", arg |-> Null, ret |-> Null, resolved |-> "none"]

NoReqSrc == [src |-> NoSrc, how |-> "none"]

(***************************************************************************)
(* Initial state: the engine is constructed, no request is in flight, the  *)
(* client holds nothing.  Under Spec the host hands the middleware one     *)
(* request at a time: a request is followed to its response before the     *)
(* client sends the next one.                                              *)
(***************************************************************************)
Init ==
    /\ givenOptions \in OptionSets
    /\ engine = processOptions(givenOptions, FirstRandom)
    /\ parallel = 1
    /\ now = 0
    /\ clientTok = Null
    /\ clientMod = FALSE
    /\ clientSrc = NoSrc
    /\ pc = [r \in Requests |-> "idle"]
    /\ reqTransport = [r \in Requests |-> Null]
    /\ reqMod = [r \in Requests |-> FALSE]
    /\ reqSrc = [r \in Requests |-> NoReqSrc]
    /\ token = [r \in Requests |-> Undefined]
    /\ signedToken = [r \in Requests |-> Undefined]
    /\ resTok = [r \in Requests |-> NoDirective]
    /\ resMod = [r \in Requests |-> "none"]
    /\ hookLog = [r \in Requests |-> << >>]
    /\ attached = [r \in Requests |-> FALSE]
    /\ nextCalled = [r \in Requests |-> FALSE]
    /\ authArg = [r \in Requests |-> Null]
    /\ pending = [r \in Requests |-> Null]
    /\ lastOp = [r \in Requests |-> NoOp]
    /\ resolved = [r \in Requests |-> "none"]
    /\ ops = [r \in Requests |-> 0]

clientVars == << clientTok, clientMod, clientSrc >>
hostVars == << givenOptions, engine, parallel >>
reqInVars == << reqTransport, reqMod, reqSrc >>
fieldVars == << token, signedToken >>
resVars == << resTok, resMod >>
mwVars == << attached, nextCalled >>
authVars == << authArg, pending >>

(***************************************************************************)
(* The clock                                                               *)
(***************************************************************************)
Tick ==
    /\ now < MaxTime
    /\ now' = now + 1
    /\ UNCHANGED << hostVars, clientVars, pc, reqInVars, fieldVars, resVars, hookLog,
                    mwVars, authVars, lastOp, resolved, ops >>

(***************************************************************************)
(* A request arrives: the middleware is entered and verify calls getToken. *)
(* The client sends what it holds, or a tampered copy of it.               *)
(***************************************************************************)
\* A middleware that does not wait for verify before it calls next().
ArriveNoAwait(r) ==
    /\ pc[r] = "idle"
    /\ Cardinality({q \in Requests : pc[q] # "idle"}) < parallel
    /\ \A q \in Requests : q < r => pc[q] # "idle"
    /\ \E how \in {"honest", "tampered"} :
          /\ how = "tampered" => IsToken(clientTok)
          /\ reqTransport' = [reqTransport EXCEPT ![r] =
                IF how = "honest" THEN clientTok ELSE Tamper(clientTok)]
          /\ reqSrc' = [reqSrc EXCEPT ![r] = [src |-> clientSrc, how |-> how]]
    /\ reqMod' = [reqMod EXCEPT ![r] = clientMod]
    /\ attached' = [attached EXCEPT ![r] = TRUE]
    /\ nextCalled' = [nextCalled EXCEPT ![r] = TRUE]
    /\ pc' = [pc EXCEPT ![r] = "verify"]
    /\ UNCHANGED << hostVars, now, clientVars, fieldVars, resVars, hookLog,
                    authVars, lastOp, resolved, ops >>

Arrive(r) ==
    /\ pc[r] = "idle"
    /\ Cardinality({q \in Requests : pc[q] # "idle"}) < parallel
    /\ \A q \in Requests : q < r => pc[q] # "idle"
    /\ \E how \in {"honest", "tampered"} :
          /\ how = "tampered" => IsToken(clientTok)
          /\ reqTransport' = [reqTransport EXCEPT ![r] =
                IF how = "honest" THEN clientTok ELSE Tamper(clientTok)]
          /\ reqSrc' = [reqSrc EXCEPT ![r] = [src |-> clientSrc, how |-> how]]
    /\ reqMod' = [reqMod EXCEPT ![r] = clientMod]
    /\ pc' = [pc EXCEPT ![r] = "verify"]
    /\ UNCHANGED << hostVars, now, clientVars, fieldVars, resVars, hookLog, mwVars,
                    authVars, lastOp, resolved, ops >>

(***************************************************************************)
(* JwtEngine.verify                                                        *)
(***************************************************************************)
\* getToken has answered: lines 140-142 and 157-160.
\* A verify that asks the transport to remove the token also when the request
\* carried none.
\* A verify that leaves req.token unassigned when the request carried no token.
VerifyGetTokenLeavesUndefined(r) ==
    /\ pc[r] = "verify"
    /\ LET st == getToken(engine.clientTokenEngine, reqTransport[r])
       IN IF st # Null
          THEN /\ signedToken' = [signedToken EXCEPT ![r] = st]
               /\ pc' = [pc EXCEPT ![r] = "jwtVerify"]
               /\ UNCHANGED << token, lastOp, resolved >>
          ELSE /\ signedToken' = [signedToken EXCEPT ![r] = Null]
               /\ lastOp' = [lastOp EXCEPT ![r] = Op("verify")]
               /\ resolved' = [resolved EXCEPT ![r] = "Unauthenticated"]
               /\ pc' = [pc EXCEPT ![r] = "attach"]
               /\ UNCHANGED token
    /\ UNCHANGED << hostVars, now, clientVars, reqInVars, resVars, hookLog, mwVars,
                    authVars, ops >>

VerifyGetTokenRemovesAbsent(r) ==
    /\ pc[r] = "verify"
    /\ LET st == getToken(engine.clientTokenEngine, reqTransport[r])
       IN IF st # Null
          THEN /\ signedToken' = [signedToken EXCEPT ![r] = st]
               /\ pc' = [pc EXCEPT ![r] = "jwtVerify"]
               /\ UNCHANGED << token, lastOp, resolved, resTok >>
          ELSE /\ signedToken' = [signedToken EXCEPT ![r] = Null]
               /\ token' = [token EXCEPT ![r] = Null]
               /\ resTok' = [resTok EXCEPT ![r] = removeToken(engine.clientTokenEngine, @)]
               /\ lastOp' = [lastOp EXCEPT ![r] = Op("verify")]
               /\ resolved' = [resolved EXCEPT ![r] = "Unauthenticated"]
               /\ pc' = [pc EXCEPT ![r] = "attach"]
    /\ UNCHANGED << hostVars, now, clientVars, reqInVars, resMod, hookLog, mwVars,
                    authVars, ops >>

VerifyGetToken(r) ==
    /\ pc[r] = "verify"
    /\ LET st == getToken(engine.clientTokenEngine, reqTransport[r])
       IN IF st # Null
          THEN /\ signedToken' = [signedToken EXCEPT ![r] = st]
               /\ pc' = [pc EXCEPT ![r] = "jwtVerify"]
               /\ UNCHANGED << token, lastOp, resolved >>
          ELSE /\ signedToken' = [signedToken EXCEPT ![r] = Null]
               /\ token' = [token EXCEPT ![r] = Null]
               /\ lastOp' = [lastOp EXCEPT ![r] = Op("verify")]
               /\ resolved' = [resolved EXCEPT ![r] = "Unauthenticated"]
               /\ pc' = [pc EXCEPT ![r] = "attach"]
    /\ UNCHANGED << hostVars, now, clientVars, reqInVars, resVars, hookLog, mwVars,
                    authVars, ops >>

\* A catch block that ignores the invalid token instead of removing it.
\* A verify that also asks a modifier-token engine to validate the request.
\* A catch block that invokes the hook before it asks the transport to remove
\* the token.
VerifyCallbackHookFirst(r) ==
    /\ pc[r] = "jwtVerify"
    /\ IF jwtVerifyOk(signedToken[r], engine.publicKey, verifyOptions(engine), now)
       THEN /\ token' = [token EXCEPT ![r] = Payload(signedToken[r].pl)]
            /\ lastOp' = [lastOp EXCEPT ![r] = Op("verify")]
            /\ resolved' = [resolved EXCEPT ![r] = "Authenticated"]
            /\ pc' = [pc EXCEPT ![r] = "attach"]
            /\ UNCHANGED hookLog
       ELSE /\ token' = [token EXCEPT ![r] = Null]
            /\ hookLog' = [hookLog EXCEPT ![r] = Append(@, signedToken[r])]
            /\ resolved' = [resolved EXCEPT ![r] = "Invalid"]
            /\ pc' = [pc EXCEPT ![r] = "removeToken"]
            /\ UNCHANGED lastOp
    /\ UNCHANGED << hostVars, now, clientVars, reqInVars, signedToken, resVars,
                    mwVars, authVars, ops >>

VerifyCallbackChecksModifier(r) ==
    /\ pc[r] = "jwtVerify"
    /\ IF /\ jwtVerifyOk(signedToken[r], engine.publicKey, verifyOptions(engine), now)
          /\ mteValidate(reqMod[r])
       THEN /\ token' = [token EXCEPT ![r] = Payload(signedToken[r].pl)]
            /\ lastOp' = [lastOp EXCEPT ![r] = Op("verify")]
            /\ resolved' = [resolved EXCEPT ![r] = "Authenticated"]
            /\ pc' = [pc EXCEPT ![r] = "attach"]
            /\ UNCHANGED resTok
       ELSE /\ token' = [token EXCEPT ![r] = Null]
            /\ resTok' = [resTok EXCEPT ![r] = removeToken(engine.clientTokenEngine, @)]
            /\ resolved' = [resolved EXCEPT ![r] = "Invalid"]
            /\ pc' = [pc EXCEPT ![r] = "removeToken"]
            /\ UNCHANGED lastOp
    /\ UNCHANGED << hostVars, now, clientVars, reqInVars, signedToken, resMod, hookLog,
                    mwVars, authVars, ops >>

VerifyCallbackIgnoresInvalid(r) ==
    /\ pc[r] = "jwtVerify"
    /\ IF jwtVerifyOk(signedToken[r], engine.publicKey, verifyOptions(engine), now)
       THEN /\ token' = [token EXCEPT ![r] = Payload(signedToken[r].pl)]
            /\ lastOp' = [lastOp EXCEPT ![r] = Op("verify")]
            /\ resolved' = [resolved EXCEPT ![r] = "Authenticated"]
            /\ pc' = [pc EXCEPT ![r] = "attach"]
       ELSE /\ token' = [token EXCEPT ![r] = Null]
            /\ resolved' = [resolved EXCEPT ![r] = "Invalid"]
            /\ pc' = [pc EXCEPT ![r] = "removeToken"]
            /\ UNCHANGED lastOp
    /\ UNCHANGED << hostVars, now, clientVars, reqInVars, signedToken, resVars,
                    hookLog, mwVars, authVars, ops >>

\* jwt.verify has called back: lines 144-153 (up to the await of removeToken).
VerifyCallback(r) ==
    /\ pc[r] = "jwtVerify"
    /\ IF jwtVerifyOk(signedToken[r], engine.publicKey, verifyOptions(engine), now)
       THEN /\ token' = [token EXCEPT ![r] = Payload(signedToken[r].pl)]
            /\ lastOp' = [lastOp EXCEPT ![r] = Op("verify")]
            /\ resolved' = [resolved EXCEPT ![r] = "Authenticated"]
            /\ pc' = [pc EXCEPT ![r] = "attach"]
            /\ UNCHANGED resTok
       ELSE /\ token' = [token EXCEPT ![r] = Null]
            /\ resTok' = [resTok EXCEPT ![r] = removeToken(engine.clientTokenEngine, @)]
            /\ resolved' = [resolved EXCEPT ![r] = "Invalid"]
            /\ pc' = [pc EXCEPT ![r] = "removeToken"]
            /\ UNCHANGED lastOp
    /\ UNCHANGED << hostVars, now, clientVars, reqInVars, signedToken, resMod, hookLog,
                    mwVars, authVars, ops >>

\* A failure path that lets the error escape from verify: the middleware's
\* promise rejects and next() is never called.
OnNotValidTokenRethrows(r) ==
    /\ pc[r] = "removeToken"
    /\ hookLog' = [hookLog EXCEPT ![r] = Append(@, signedToken[r])]
    /\ pc' = [pc EXCEPT ![r] = "rejected"]
    /\ UNCHANGED << hostVars, now, clientVars, reqInVars, fieldVars, resVars, mwVars,
                    authVars, lastOp, resolved, ops >>

\* removeToken has resolved: line 154, the hook is invoked and awaited.
OnNotValidToken(r) ==
    /\ pc[r] = "removeToken"
    /\ hookLog' = [hookLog EXCEPT ![r] = Append(@, signedToken[r])]
    /\ lastOp' = [lastOp EXCEPT ![r] = Op("verify")]
    /\ pc' = [pc EXCEPT ![r] = "attach"]
    /\ UNCHANGED << hostVars, now, clientVars, reqInVars, fieldVars, resVars, mwVars,
                    authVars, resolved, ops >>

(***************************************************************************)
(* generateEngine: after "await jwtEngine.verify", lines 101-111.          *)
(***************************************************************************)
\* A middleware that clears req.token again before it calls next().
AttachAndNextResetsToken(r) ==
    /\ pc[r] = "attach"
    /\ token' = [token EXCEPT ![r] = Null]
    /\ attached' = [attached EXCEPT ![r] = TRUE]
    /\ nextCalled' = [nextCalled EXCEPT ![r] = TRUE]
    /\ pc' = [pc EXCEPT ![r] = "downstream"]
    /\ UNCHANGED << hostVars, now, clientVars, reqInVars, signedToken, resVars, hookLog,
                    authVars, lastOp, resolved, ops >>

AttachAndNext(r) ==
    /\ pc[r] = "attach"
    /\ attached' = [attached EXCEPT ![r] = TRUE]
    /\ nextCalled' = [nextCalled EXCEPT ![r] = TRUE]
    /\ pc' = [pc EXCEPT ![r] = "downstream"]
    /\ UNCHANGED << hostVars, now, clientVars, reqInVars, fieldVars, resVars, hookLog,
                    authVars, lastOp, resolved, ops >>

(***************************************************************************)
(* res.authenticate -> JwtEngine.sign                                      *)
(***************************************************************************)
\* The handler calls res.authenticate(p): jwt.sign is started (lines 107-108, 122-123).
Authenticate(r, p) ==
    /\ pc[r] = "downstream"
    /\ attached[r]
    /\ ops[r] < MaxOps
    /\ ops' = [ops EXCEPT ![r] = @ + 1]
    /\ authArg' = [authArg EXCEPT ![r] = Payload(p)]
    /\ pending' = [pending EXCEPT ![r] =
                      jwtSign(p, engine.privateKey, signOptions(engine), now)]
    /\ pc' = [pc EXCEPT ![r] = "jwtSign"]
    /\ UNCHANGED << hostVars, now, clientVars, reqInVars, fieldVars, resVars, hookLog,
                    mwVars, lastOp, resolved >>

\* The payload a merging sign would leave on the request.
Merge(old, new) ==
    IF old.k = "payload"
    THEN Payload(new.claims \cup {c \in old.claims : \A d \in new.claims : d[1] # c[1]})
    ELSE new

\* A sign that patches the payload already on the request.
SignCallbackMerges(r) ==
    /\ pc[r] = "jwtSign"
    /\ token' = [token EXCEPT ![r] = Merge(@, authArg[r])]
    /\ signedToken' = [signedToken EXCEPT ![r] = pending[r]]
    /\ resTok' = [resTok EXCEPT ![r] =
                     setToken(engine.clientTokenEngine, pending[r], authArg[r], @)]
    /\ lastOp' = [lastOp EXCEPT ![r] = [op |-> "authenticate", arg |-> authArg[r],
                                        ret |-> pending[r], was |-> token[r]]]
    /\ authArg' = [authArg EXCEPT ![r] = Null]
    /\ pending' = [pending EXCEPT ![r] = Null]
    /\ pc' = [pc EXCEPT ![r] = "downstream"]
    /\ UNCHANGED << hostVars, now, clientVars, reqInVars, resMod, hookLog, mwVars,
                    resolved, ops >>

\* jwt.sign has called back with a token: lines 125, 128-131.
\* A sign that keeps the signed-in payload in one place shared by all requests.
\* A sign that sets the request fields and does not call setToken.
SignCallbackNoSetToken(r) ==
    /\ pc[r] = "jwtSign"
    /\ token' = [token EXCEPT ![r] = authArg[r]]
    /\ signedToken' = [signedToken EXCEPT ![r] = pending[r]]
    /\ lastOp' = [lastOp EXCEPT ![r] = [op |-> "authenticate", arg |-> authArg[r],
                                        ret |-> pending[r], was |-> token[r]]]
    /\ authArg' = [authArg EXCEPT ![r] = Null]
    /\ pending' = [pending EXCEPT ![r] = Null]
    /\ pc' = [pc EXCEPT ![r] = "downstream"]
    /\ UNCHANGED << hostVars, now, clientVars, reqInVars, resVars, hookLog, mwVars,
                    resolved, ops >>

SignCallbackSharedState(r) ==
    /\ pc[r] = "jwtSign"
    /\ token' = [q \in Requests |-> IF pc[q] = "idle" THEN token[q] ELSE authArg[r]]
    /\ signedToken' = [signedToken EXCEPT ![r] = pending[r]]
    /\ resTok' = [resTok EXCEPT ![r] =
                     setToken(engine.clientTokenEngine, pending[r], authArg[r], @)]
    /\ lastOp' = [lastOp EXCEPT ![r] = [op |-> "authenticate", arg |-> authArg[r],
                                        ret |-> pending[r], was |-> token[r]]]
    /\ authArg' = [authArg EXCEPT ![r] = Null]
    /\ pending' = [pending EXCEPT ![r] = Null]
    /\ pc' = [pc EXCEPT ![r] = "downstream"]
    /\ UNCHANGED << hostVars, now, clientVars, reqInVars, resMod, hookLog, mwVars,
                    resolved, ops >>

SignCallback(r) ==
    /\ pc[r] = "jwtSign"
    /\ token' = [token EXCEPT ![r] = authArg[r]]
    /\ signedToken' = [signedToken EXCEPT ![r] = pending[r]]
    /\ resTok' = [resTok EXCEPT ![r] =
                     setToken(engine.clientTokenEngine, pending[r], authArg[r], @)]
    /\ lastOp' = [lastOp EXCEPT ![r] = [op |-> "authenticate", arg |-> authArg[r],
                                        ret |-> pending[r], was |-> token[r]]]
    /\ authArg' = [authArg EXCEPT ![r] = Null]
    /\ pending' = [pending EXCEPT ![r] = Null]
    /\ pc' = [pc EXCEPT ![r] = "downstream"]
    /\ UNCHANGED << hostVars, now, clientVars, reqInVars, resMod, hookLog, mwVars,
                    resolved, ops >>

\* A sign that swallows the signer's error and resolves with nothing.
\* A sign that assigns req.token before the signer has answered: a failure
\* leaves the new payload on the request.
SignErrorAfterAssign(r) ==
    /\ pc[r] = "jwtSign"
    /\ token' = [token EXCEPT ![r] = authArg[r]]
    /\ lastOp' = [lastOp EXCEPT ![r] = [op |-> "authenticateFailed", arg |-> authArg[r],
                                        ret |-> SigningError, was |-> token[r]]]
    /\ authArg' = [authArg EXCEPT ![r] = Null]
    /\ pending' = [pending EXCEPT ![r] = Null]
    /\ pc' = [pc EXCEPT ![r] = "downstream"]
    /\ UNCHANGED << hostVars, now, clientVars, reqInVars, signedToken, resVars, hookLog,
                    mwVars, resolved, ops >>

SignErrorSwallowed(r) ==
    /\ pc[r] = "jwtSign"
    /\ lastOp' = [lastOp EXCEPT ![r] = [op |-> "authenticateFailed", arg |-> authArg[r],
                                        ret |-> Undefined, was |-> token[r]]]
    /\ authArg' = [authArg EXCEPT ![r] = Null]
    /\ pending' = [pending EXCEPT ![r] = Null]
    /\ pc' = [pc EXCEPT ![r] = "downstream"]
    /\ UNCHANGED << hostVars, now, clientVars, reqInVars, fieldVars, resVars, hookLog,
                    mwVars, resolved, ops >>

\* jwt.sign has called back with an error: line 125, the promise rejects.
SignError(r) ==
    /\ pc[r] = "jwtSign"
    /\ lastOp' = [lastOp EXCEPT ![r] = [op |-> "authenticateFailed", arg |-> authArg[r],
                                        ret |-> SigningError, was |-> token[r]]]
    /\ authArg' = [authArg EXCEPT ![r] = Null]
    /\ pending' = [pending EXCEPT ![r] = Null]
    /\ pc' = [pc EXCEPT ![r] = "downstream"]
    /\ UNCHANGED << hostVars, now, clientVars, reqInVars, fieldVars, resVars, hookLog,
                    mwVars, resolved, ops >>

(***************************************************************************)
(* res.deauthenticate: lines 101-105.                                      *)
(***************************************************************************)
\* A deauthenticate that also clears a paired modifier token.
\* A deauthenticate that clears req.signedToken and leaves req.token.
DeauthenticateKeepsToken(r) ==
    /\ pc[r] = "downstream"
    /\ attached[r]
    /\ ops[r] < MaxOps
    /\ ops' = [ops EXCEPT ![r] = @ + 1]
    /\ signedToken' = [signedToken EXCEPT ![r] = Null]
    /\ resTok' = [resTok EXCEPT ![r] = removeToken(engine.clientTokenEngine, @)]
    /\ lastOp' = [lastOp EXCEPT ![r] = Op("deauthenticate")]
    /\ UNCHANGED << hostVars, now, clientVars, pc, reqInVars, token, resMod, hookLog, mwVars,
                    authVars, resolved >>

DeauthenticateClearsModifier(r) ==
    /\ pc[r] = "downstream"
    /\ attached[r]
    /\ ops[r] < MaxOps
    /\ ops' = [ops EXCEPT ![r] = @ + 1]
    /\ token' = [token EXCEPT ![r] = Null]
    /\ signedToken' = [signedToken EXCEPT ![r] = Null]
    /\ resTok' = [resTok EXCEPT ![r] = removeToken(engine.clientTokenEngine, @)]
    /\ resMod' = [resMod EXCEPT ![r] = mteRemove(@)]
    /\ lastOp' = [lastOp EXCEPT ![r] = Op("deauthenticate")]
    /\ UNCHANGED << hostVars, now, clientVars, pc, reqInVars, hookLog, mwVars,
                    authVars, resolved >>

\* A deauthenticate that clears the request fields and tells the client nothing.
DeauthenticateFieldsOnly(r) ==
    /\ pc[r] = "downstream"
    /\ attached[r]
    /\ ops[r] < MaxOps
    /\ ops' = [ops EXCEPT ![r] = @ + 1]
    /\ token' = [token EXCEPT ![r] = Null]
    /\ signedToken' = [signedToken EXCEPT ![r] = Null]
    /\ lastOp' = [lastOp EXCEPT ![r] = Op("deauthenticate")]
    /\ UNCHANGED << hostVars, now, clientVars, pc, reqInVars, resVars, hookLog,
                    mwVars, authVars, resolved >>

Deauthenticate(r) ==
    /\ pc[r] = "downstream"
    /\ attached[r]
    /\ ops[r] < MaxOps
    /\ ops' = [ops EXCEPT ![r] = @ + 1]
    /\ token' = [token EXCEPT ![r] = Null]
    /\ signedToken' = [signedToken EXCEPT ![r] = Null]
    /\ resTok' = [resTok EXCEPT ![r] = removeToken(engine.clientTokenEngine, @)]
    /\ lastOp' = [lastOp EXCEPT ![r] = Op("deauthenticate")]
    /\ UNCHANGED << hostVars, now, clientVars, pc, reqInVars, resMod, hookLog, mwVars,
                    authVars, resolved >>

(***************************************************************************)
(* The handler drives a modifier-token engine itself, beside the engine.   *)
(***************************************************************************)
IssueModifier(r) ==
    /\ pc[r] = "downstream"
    /\ ops[r] < MaxOps
    /\ ops' = [ops EXCEPT ![r] = @ + 1]
    /\ resMod' = [resMod EXCEPT ![r] = mteIssue(@)]
    /\ lastOp' = [lastOp EXCEPT ![r] = Op("issueModifier")]
    /\ UNCHANGED << hostVars, now, clientVars, pc, reqInVars, fieldVars, resTok,
                    hookLog, mwVars, authVars, resolved >>

RemoveModifier(r) ==
    /\ pc[r] = "downstream"
    /\ ops[r] < MaxOps
    /\ ops' = [ops EXCEPT ![r] = @ + 1]
    /\ resMod' = [resMod EXCEPT ![r] = mteRemove(@)]
    /\ lastOp' = [lastOp EXCEPT ![r] = Op("removeModifier")]
    /\ UNCHANGED << hostVars, now, clientVars, pc, reqInVars, fieldVars, resTok,
                    hookLog, mwVars, authVars, resolved >>

(***************************************************************************)
(* The response is sent and the client applies it; the slot is then free   *)
(* for the next request.                                                   *)
(***************************************************************************)
(***************************************************************************)
(* The handler is guarded by requireAuthenticated: when the guard passes   *)
(* the handler goes on; when it rejects, the access-denied response is     *)
(* sent at once and nothing downstream runs.                               *)
(***************************************************************************)
RequireAuthenticated(r) ==
    /\ pc[r] = "downstream"
    /\ ops[r] < MaxOps
    /\ IF reqAuthenticated(token[r], signedToken[r])
       THEN /\ ops' = [ops EXCEPT ![r] = @ + 1]
            /\ lastOp' = [lastOp EXCEPT ![r] = Op("reqAuthenticated")]
            /\ UNCHANGED << clientVars, pc, reqInVars, fieldVars, resVars, hookLog, mwVars,
                            resolved >>
       ELSE /\ clientTok' = ApplyResponse(resTok[r], clientTok)
            /\ clientMod' = ApplyModifier(resMod[r], clientMod)
            /\ clientSrc' = [op |-> "denied", arg |-> Null, ret |-> Null,
                             resolved |-> resolved[r]]
            /\ pc' = [pc EXCEPT ![r] = "idle"]
            /\ reqTransport' = [reqTransport EXCEPT ![r] = Null]
            /\ reqMod' = [reqMod EXCEPT ![r] = FALSE]
            /\ reqSrc' = [reqSrc EXCEPT ![r] = NoReqSrc]
            /\ token' = [token EXCEPT ![r] = Undefined]
            /\ signedToken' = [signedToken EXCEPT ![r] = Undefined]
            /\ resTok' = [resTok EXCEPT ![r] = NoDirective]
            /\ resMod' = [resMod EXCEPT ![r] = "none"]
            /\ hookLog' = [hookLog EXCEPT ![r] = << >>]
            /\ attached' = [attached EXCEPT ![r] = FALSE]
            /\ nextCalled' = [nextCalled EXCEPT ![r] = FALSE]
            /\ lastOp' = [lastOp EXCEPT ![r] = NoOp]
            /\ resolved' = [resolved EXCEPT ![r] = "none"]
            /\ ops' = [ops EXCEPT ![r] = 0]
    /\ UNCHANGED << hostVars, now, authVars >>

Finish(r) ==
    /\ pc[r] = "downstream"
    /\ clientTok' = ApplyResponse(resTok[r], clientTok)
    /\ clientMod' = ApplyModifier(resMod[r], clientMod)
    /\ clientSrc' = [op |-> lastOp[r].op, arg |-> lastOp[r].arg, ret |-> lastOp[r].ret,
                     resolved |-> resolved[r]]
    /\ pc' = [pc EXCEPT ![r] = "idle"]
    /\ reqTransport' = [reqTransport EXCEPT ![r] = Null]
    /\ reqMod' = [reqMod EXCEPT ![r] = FALSE]
    /\ reqSrc' = [reqSrc EXCEPT ![r] = NoReqSrc]
    /\ token' = [token EXCEPT ![r] = Undefined]
    /\ signedToken' = [signedToken EXCEPT ![r] = Undefined]
    /\ resTok' = [resTok EXCEPT ![r] = NoDirective]
    /\ resMod' = [resMod EXCEPT ![r] = "none"]
    /\ hookLog' = [hookLog EXCEPT ![r] = << >>]
    /\ attached' = [attached EXCEPT ![r] = FALSE]
    /\ nextCalled' = [nextCalled EXCEPT ![r] = FALSE]
    /\ lastOp' = [lastOp EXCEPT ![r] = NoOp]
    /\ resolved' = [resolved EXCEPT ![r] = "none"]
    /\ ops' = [ops EXCEPT ![r] = 0]
    /\ UNCHANGED << hostVars, now, authVars >>

(***************************************************************************)
(* The host restarts: a new process calls generateEngine with the same     *)
(* options, and crypto.randomBytes draws a key that was not drawn before.  *)
(* The client keeps what it holds.                                         *)
(***************************************************************************)
Restart ==
    /\ \A r \in Requests : pc[r] = "idle"
    /\ \E rnd \in RandomKeys \ {FirstRandom, engine.privateKey} :
          engine' = processOptions(givenOptions, rnd)
    /\ UNCHANGED << givenOptions, parallel, now, clientVars, pc, reqInVars, fieldVars,
                    resVars, hookLog, mwVars, authVars, lastOp, resolved, ops >>

Next ==
    \/ Tick
    \/ \E r \in Requests : Arrive(r)
    \/ \E r \in Requests : VerifyGetToken(r)
    \/ \E r \in Requests : VerifyCallback(r)
    \/ \E r \in Requests : OnNotValidToken(r)
    \/ \E r \in Requests : AttachAndNext(r)
    \/ \E r \in Requests, p \in Payloads : Authenticate(r, p)
    \/ \E r \in Requests : SignCallback(r)
    \/ \E r \in Requests : SignError(r)
    \/ \E r \in Requests : Deauthenticate(r)
    \/ \E r \in Requests : IssueModifier(r)
    \/ \E r \in Requests : RemoveModifier(r)
    \/ \E r \in Requests : Finish(r)

Spec == Init /\ [][Next]_vars

\* The event loop runs every continuation of the middleware that is ready.
Middleware(r) ==
    VerifyGetToken(r) \/ VerifyCallback(r) \/ OnNotValidToken(r) \/ AttachAndNext(r)

FairSpec == Spec /\ \A r \in Requests : WF_vars(Middleware(r))

\* The engine in its host: routes guarded by requireAuthenticated, and
\* restarts of the host process.
HostNext ==
    \/ Next
    \/ Restart
    \/ \E r \in Requests : RequireAuthenticated(r)

HostSpec == Init /\ [][HostNext]_vars

(***************************************************************************)
(* Two requests in flight at once on one engine with the default options:  *)
(* their continuations interleave at every suspension point.  The clock    *)
(* stands still while they are served and the Signer signs every payload.  *)
(***************************************************************************)
ConcInit ==
    /\ givenOptions \in {o \in OptionSets : o.secretKey = "" /\ o.privateKey = ""}
    /\ engine = processOptions(givenOptions, FirstRandom)
    /\ parallel = 2
    /\ now = 0
    /\ clientTok = Null
    /\ clientMod = FALSE
    /\ clientSrc = NoSrc
    /\ pc = [r \in Requests |-> "idle"]
    /\ reqTransport = [r \in Requests |-> Null]
    /\ reqMod = [r \in Requests |-> FALSE]
    /\ reqSrc = [r \in Requests |-> NoReqSrc]
    /\ token = [r \in Requests |-> Undefined]
    /\ signedToken = [r \in Requests |-> Undefined]
    /\ resTok = [r \in Requests |-> NoDirective]
    /\ resMod = [r \in Requests |-> "none"]
    /\ hookLog = [r \in Requests |-> << >>]
    /\ attached = [r \in Requests |-> FALSE]
    /\ nextCalled = [r \in Requests |-> FALSE]
    /\ authArg = [r \in Requests |-> Null]
    /\ pending = [r \in Requests |-> Null]
    /\ lastOp = [r \in Requests |-> NoOp]
    /\ resolved = [r \in Requests |-> "none"]
    /\ ops = [r \in Requests |-> 0]

\* Each of the two requests authenticates with a payload of its own.
OwnPayload(r) == IF r = 1 THEN PayloadA ELSE EmptyPayload

ConcNext ==
    \/ \E r \in Requests : Arrive(r)
    \/ \E r \in Requests : VerifyGetToken(r)
    \/ \E r \in Requests : VerifyCallback(r)
    \/ \E r \in Requests : OnNotValidToken(r)
    \/ \E r \in Requests : AttachAndNext(r)
    \/ \E r \in Requests : Authenticate(r, OwnPayload(r))
    \/ \E r \in Requests : SignCallback(r)
    \/ \E r \in Requests : Deauthenticate(r)
    \/ \E r \in Requests : Finish(r)

ConcSpec == ConcInit /\ [][ConcNext]_vars

(***************************************************************************)
(* Properties                                                              *)
(***************************************************************************)
\* verify has completed on request r and no handler call has followed.
JustVerified(r) == pc[r] \in {"attach", "downstream"} /\ lastOp[r].op = "verify"

\* verify has completed on request r.
Verified(r) == pc[r] \in {"attach", "downstream", "jwtSign"}

\* The step in which jwt.verify calls back on request r.
VerifyCallbackStep(r) == pc[r] = "jwtVerify" /\ pc'[r] # "jwtVerify"

\* Request r honestly carries the token that the last response given to the
\* client persisted with authenticate.
CarriesAuthenticated(r) ==
    /\ reqSrc[r].how = "honest"
    /\ reqSrc[r].src.op = "authenticate"
    /\ reqTransport[r] = reqSrc[r].src.ret

\* What verify would resolve request r to if it ran on it now.
VerifyWouldResolve(r) ==
    LET st == getToken(engine.clientTokenEngine, reqTransport[r])
    IN IF st = Null THEN "Unauthenticated"
       ELSE IF jwtVerifyOk(st, engine.publicKey, verifyOptions(engine), now)
            THEN "Authenticated" ELSE "Invalid"

\* C1 (as stated): a request that carries the token authenticate(P) persisted
\* and is verified before the token's expiry resolves to Authenticated(P), with
\* req.token = P and req.signedToken = the string authenticate returned.
C1_RoundTripBeforeExpiry ==
    [][\A r \in Requests :
          (VerifyCallbackStep(r) /\ CarriesAuthenticated(r) /\ now < reqTransport[r].exp)
          => /\ token'[r] = reqSrc[r].src.arg
             /\ signedToken'[r] = reqSrc[r].src.ret
             /\ resolved'[r] = "Authenticated"]_vars

\* C1 (amended): the same, for a request verified inside the token's validity
\* window: not before its not-before time and before its expiry.
C1_RoundTrip ==
    [][\A r \in Requests :
          (/\ VerifyCallbackStep(r)
           /\ CarriesAuthenticated(r)
           /\ reqTransport[r].nbf <= now
           /\ now < reqTransport[r].exp)
          => /\ token'[r] = reqSrc[r].src.arg
             /\ signedToken'[r] = reqSrc[r].src.ret
             /\ StateOf(token'[r], signedToken'[r]) = "Authenticated"
             /\ resolved'[r] = "Authenticated"]_vars

C1_Witness ==
    \E r \in Requests :
        /\ JustVerified(r)
        /\ CarriesAuthenticated(r)
        /\ reqSrc[r].src.arg = Payload(PayloadA)
        /\ token[r] = Payload(PayloadA)
        /\ signedToken[r] = reqSrc[r].src.ret

\* C2: a request carrying a token the Signer rejects is resolved to Invalid,
\* never to Authenticated, and the hook is invoked exactly once for it, with
\* the raw token; for no other request is the hook invoked.
C2_RejectedIsInvalidHookOnce ==
    \A r \in Requests :
        /\ (Verified(r) /\ reqSrc[r].how = "tampered")
              => /\ resolved[r] = "Invalid"
                 /\ hookLog[r] = << reqTransport[r] >>
        /\ (JustVerified(r) /\ resolved[r] = "Invalid")
              => /\ State(r) = "Invalid"
                 /\ signedToken[r] = reqTransport[r]
        /\ Verified(r)
              => /\ resolved[r] = "Invalid" => hookLog[r] = << reqTransport[r] >>
                 /\ resolved[r] # "Invalid" => hookLog[r] = << >>
        /\ (Verified(r) /\ resolved[r] = "Authenticated")
              => PublicOf(reqTransport[r].sig) = engine.publicKey

C2_Witness ==
    \E r \in Requests :
        /\ JustVerified(r)
        /\ reqSrc[r].how = "tampered"
        /\ State(r) = "Invalid"
        /\ hookLog[r] = << reqTransport[r] >>

\* The next request of the client after a response whose request verify
\* resolved to Invalid (and whose handler called nothing), sent honestly.
FollowsInvalid(r) ==
    /\ Verified(r)
    /\ reqSrc[r].how = "honest"
    /\ reqSrc[r].src.op = "verify"
    /\ reqSrc[r].src.resolved = "Invalid"

\* C3 (as stated): after verify resolved a request to Invalid the client no
\* longer holds the token: its next request carries none, resolves to
\* Unauthenticated and does not invoke the hook.
C3_InvalidTokenNotResent ==
    \A r \in Requests :
        FollowsInvalid(r)
        => /\ reqTransport[r] = Null
           /\ resolved[r] = "Unauthenticated"
           /\ hookLog[r] = << >>

\* C3 (amended): the same with the cookie transport; the header transport
\* cannot make the client drop the token.
C3_InvalidCookieNotResent ==
    \A r \in Requests :
        (FollowsInvalid(r) /\ engine.clientTokenEngine = "cookie")
        => /\ reqTransport[r] = Null
           /\ resolved[r] = "Unauthenticated"
           /\ hookLog[r] = << >>

C3_Witness ==
    \E r \in Requests :
        /\ FollowsInvalid(r)
        /\ engine.clientTokenEngine = "cookie"
        /\ JustVerified(r)
        /\ State(r) = "Unauthenticated"

C7_SignErrorPropagates ==
    \A r \in Requests :
        /\ lastOp[r].op = "authenticateFailed"
              => /\ lastOp[r].ret = SigningError
                 /\ ~IsToken(lastOp[r].ret)
        /\ lastOp[r].op = "authenticate" => IsToken(lastOp[r].ret)

C7_Witness ==
    \E r \in Requests :
        /\ pc[r] = "downstream"
        /\ lastOp[r].op = "authenticateFailed"
        /\ lastOp[r].arg = Payload(PayloadA)
        /\ lastOp[r].ret = SigningError

\* C8: downstream runs only after verify has resolved the request and after
\* authenticate/deauthenticate are attached; until then next() is not called.
C8_DownstreamAfterVerify ==
    \A r \in Requests :
        /\ nextCalled[r]
              => /\ attached[r]
                 /\ resolved[r] # "none"
                 /\ State(r) # "Unresolved"
                 /\ pc[r] \in {"downstream", "jwtSign"}
        /\ pc[r] \in {"downstream", "jwtSign"} => nextCalled[r]
        /\ pc[r] \in {"idle", "verify", "jwtVerify", "removeToken", "attach"}
              => ~nextCalled[r] /\ ~attached[r]

C8_Witness ==
    \E r \in Requests :
        /\ pc[r] = "downstream"
        /\ nextCalled[r]
        /\ attached[r]
        /\ lastOp[r].op = "verify"
        /\ resolved[r] = "Authenticated"
        /\ State(r) = "Authenticated"

\* C9: after authenticate(P2) the request's payload is exactly P2 and the
\* token persisted to the transport carries exactly P2, whatever payload the
\* request was resolved to before.
C9_ReauthenticateReplaces ==
    \A r \in Requests :
        lastOp[r].op = "authenticate"
        => /\ token[r] = lastOp[r].arg
           /\ IsToken(signedToken[r])
           /\ signedToken[r].pl = lastOp[r].arg.claims
           /\ resTok[r] = [k |-> "set", tok |-> signedToken[r]]
           /\ lastOp[r].ret = signedToken[r]

C9_Witness ==
    \E r \in Requests :
        /\ lastOp[r].op = "authenticate"
        /\ lastOp[r].was = Payload(PayloadA)
        /\ lastOp[r].arg = Payload(EmptyPayload)
        /\ token[r] = Payload(EmptyPayload)
        /\ resTok[r].tok.pl = EmptyPayload

\* The step in which res.authenticate (succeeding or failing) or
\* res.deauthenticate completes on request r.
EngineCallStep(r) ==
    \/ pc[r] = "jwtSign" /\ pc'[r] = "downstream"
    \/ ops'[r] # ops[r] /\ lastOp'[r].op = "deauthenticate"

VerifyGetTokenStep(r) == pc[r] = "verify" /\ pc'[r] # "verify"

\* C12: when the transport yields no primary token, verify resolves the
\* request to Unauthenticated (token and signedToken both null) and does
\* nothing else: the Signer is not called (verify is over in that step), the
\* transport is not asked to set or remove a token, and the hook is not
\* invoked.
C12_NoTokenUnauthenticatedOnly ==
    [][\A r \in Requests :
          VerifyGetTokenStep(r) /\ getToken(engine.clientTokenEngine, reqTransport[r]) = Null
          => /\ token'[r] = Null
             /\ signedToken'[r] = Null
             /\ resolved'[r] = "Unauthenticated"
             /\ pc'[r] = "attach"
             /\ resTok' = resTok
             /\ resMod' = resMod
             /\ hookLog' = hookLog
             /\ UNCHANGED << clientVars, authVars, mwVars >>]_vars

C12_Witness ==
    \E r \in Requests :
        /\ JustVerified(r)
        /\ reqSrc[r].src.op = "deauthenticate"
        /\ reqTransport[r] = Null
        /\ State(r) = "Unauthenticated"
        /\ resTok[r] = NoDirective
        /\ hookLog[r] = << >>

\* C13: the request is resolved exactly once, by verify, before downstream
\* handlers run; after that its state (req.token, req.signedToken) changes
\* only through a successful authenticate, which leaves it Authenticated, or
\* through deauthenticate, which leaves it Unauthenticated, until the
\* response is sent.
C13_ResolvedOnceThenExplicit ==
    [][\A r \in Requests :
          /\ (token'[r] # token[r] \/ signedToken'[r] # signedToken[r])
             => \/ pc[r] \in {"verify", "jwtVerify"} /\ ~nextCalled[r] /\ resolved[r] = "none"
                \/ /\ pc[r] = "jwtSign"
                   /\ lastOp'[r].op = "authenticate"
                   /\ StateOf(token'[r], signedToken'[r]) = "Authenticated"
                \/ /\ pc[r] = "downstream" /\ pc'[r] = "downstream"
                   /\ lastOp'[r].op = "deauthenticate"
                   /\ StateOf(token'[r], signedToken'[r]) = "Unauthenticated"
                \/ pc[r] = "downstream" /\ pc'[r] = "idle"
          /\ resolved'[r] # resolved[r]
             => \/ pc[r] \in {"verify", "jwtVerify"} /\ resolved[r] = "none" /\ ~nextCalled[r]
                \/ pc[r] = "downstream" /\ pc'[r] = "idle"
          /\ nextCalled'[r] /\ ~nextCalled[r]
             => resolved[r] # "none" /\ State(r) = resolved[r]]_vars

C13_Witness ==
    \E r \in Requests :
        /\ pc[r] = "downstream"
        /\ resolved[r] = "Invalid"
        /\ lastOp[r].op = "deauthenticate"
        /\ ops[r] = 2
        /\ State(r) = "Unauthenticated"

\* No key pair and no secret key were given to generateEngine.
AutoKey == ~(givenOptions.publicKey # "" /\ givenOptions.privateKey # "")
           /\ givenOptions.secretKey = ""

\* C15: when no key pair is supplied the engine signs and verifies with one
\* symmetric key, fixed while the engine instance serves requests; when no
\* secret is supplied either, that key is drawn at random at construction,
\* so a token signed by an instance with another random key (before a
\* restart) resolves to Invalid.
C15_AutoKeyPerInstance ==
    [][/\ ~(givenOptions.publicKey # "" /\ givenOptions.privateKey # "")
          => engine.publicKey = engine.privateKey
       /\ givenOptions.secretKey # "" /\ engine.publicKey = engine.privateKey
          => engine.privateKey = givenOptions.secretKey
       /\ AutoKey => engine.privateKey \in RandomKeys
       /\ engine' # engine => \A r \in Requests : pc[r] = "idle" /\ pc'[r] = "idle"
       /\ \A r \in Requests :
             /\ VerifyCallbackStep(r)
             /\ IsToken(signedToken[r])
             /\ signedToken[r].sig \in RandomKeys
             /\ signedToken[r].sig # engine.privateKey
             => resolved'[r] = "Invalid"]_vars

C15_Witness ==
    \E r \in Requests :
        /\ AutoKey
        /\ JustVerified(r)
        /\ CarriesAuthenticated(r)
        /\ reqTransport[r].sig \in RandomKeys \ {engine.privateKey}
        /\ reqTransport[r].exp > now
        /\ resolved[r] = "Invalid"

\* The step in which requireAuthenticated decides on request r.
GuardStep(r) ==
    /\ pc[r] = "downstream"
    /\ \/ pc'[r] = "downstream" /\ ops'[r] = ops[r] + 1 /\ lastOp'[r].op = "reqAuthenticated"
       \/ pc'[r] = "idle" /\ clientSrc'.op = "denied"

Local(r) ==
    << pc[r], reqTransport[r], reqMod[r], token[r], signedToken[r], resTok[r], resMod[r],
       hookLog[r], attached[r], nextCalled[r], authArg[r], pending[r], lastOp[r],
       resolved[r], ops[r] >>

\* C14: with two requests in flight on one engine, under every interleaving
\* of their verify, authenticate and deauthenticate steps: a step of one
\* request leaves the other request's fields, response and position as they
\* were; each request's resolved state is what its own token resolves to and
\* its fields and response are what its own last call left; a request that is
\* at a suspension point can always go on, whatever the other is doing; and
\* the engine's keys and options never change.
C14_RequestsIsolated ==
    [][/\ engine' = engine /\ givenOptions' = givenOptions
       /\ \A r, q \in Requests :
             r # q /\ Local(r)' # Local(r) => Local(q)' = Local(q)
       /\ \A r \in Requests :
             /\ Verified(r) => resolved[r] = VerifyWouldResolve(r)
             /\ lastOp[r].op = "verify" => State(r) = resolved[r]
             /\ lastOp[r].op = "authenticate"
                => /\ token[r] = Payload(OwnPayload(r))
                   /\ signedToken[r].pl = OwnPayload(r)
                   /\ resTok[r] = [k |-> "set", tok |-> signedToken[r]]
             /\ lastOp[r].op = "deauthenticate"
                => /\ State(r) = "Unauthenticated"
                   /\ resTok[r] = removeToken(engine.clientTokenEngine, NoDirective)
             /\ pc[r] \in {"verify", "jwtVerify", "removeToken", "attach"}
                => ENABLED Middleware(r)
             /\ pc[r] = "jwtSign" => ENABLED SignCallback(r)
             /\ pc[r] = "downstream" => ENABLED Finish(r)]_vars

C14_Witness ==
    /\ parallel = 2
    /\ pc[1] = "downstream" /\ pc[2] = "jwtSign"
    /\ resolved[1] = "Invalid" /\ resolved[2] = "Authenticated"
    /\ lastOp[1].op = "authenticate" /\ State(1) = "Authenticated"
    /\ lastOp[2].op = "deauthenticate" /\ State(2) = "Unauthenticated"
    /\ token[1] = Payload(PayloadA)
    /\ resTok[2].k = "clear"

\* C17: the two request fields encode the resolved state.  After verify,
\* signedToken is null exactly when the transport provided no token, and
\* token is null exactly when none was provided or the one provided is not
\* valid: Unauthenticated is (null, null), Invalid is (token null,
\* signedToken the raw rejected token), Authenticated is both non-null.
\* After any sequence of verify, authenticate and deauthenticate a non-null
\* token comes with a non-null signedToken.
C17_FieldsEncodeState ==
    \A r \in Requests :
        /\ JustVerified(r)
           => /\ signedToken[r] = Null
                 <=> getToken(engine.clientTokenEngine, reqTransport[r]) = Null
              /\ signedToken[r] # Null => signedToken[r] = reqTransport[r]
              /\ token[r] = Null <=> resolved[r] \in {"Unauthenticated", "Invalid"}
              /\ resolved[r] = "Unauthenticated"
                 <=> token[r] = Null /\ signedToken[r] = Null
              /\ resolved[r] = "Invalid"
                 <=> token[r] = Null /\ signedToken[r] # Null
              /\ resolved[r] = "Authenticated"
                 <=> token[r] # Null /\ signedToken[r] # Null
              /\ resolved[r] = "Authenticated" => token[r] = Payload(signedToken[r].pl)
        /\ Verified(r)
           => /\ token[r] # Undefined /\ signedToken[r] # Undefined
              /\ token[r] # Null => IsToken(signedToken[r])

C17_Witness ==
    \E r \in Requests :
        /\ JustVerified(r)
        /\ resolved[r] = "Invalid"
        /\ token[r] = Null
        /\ IsToken(signedToken[r])
        /\ signedToken[r] = reqTransport[r]
        /\ reqSrc[r].how = "honest"

\* What the client holds once it has applied the response of request r as it
\* stands.
ClientWouldHold(r) == ApplyResponse(resTok[r], clientTok)

\* C18 (as stated): the last authenticate or deauthenticate call on a request
\* wins: after authenticate(P) the request is Authenticated(P) and the client
\* is told to hold the token just signed; after deauthenticate the request
\* has no payload and the client is told to hold no token.
C18_LastCallWins ==
    \A r \in Requests :
        /\ lastOp[r].op = "authenticate"
           => /\ State(r) = "Authenticated"
              /\ token[r] = lastOp[r].arg
              /\ ClientWouldHold(r) = lastOp[r].ret
        /\ lastOp[r].op = "deauthenticate"
           => /\ State(r) = "Unauthenticated"
              /\ ClientWouldHold(r) = Null

\* C18 (amended): the last call wins on the request: after authenticate(P)
\* it is Authenticated(P) and the response tells the client to hold the token
\* just signed, also when verify or deauthenticate had removed a token
\* earlier in the request; after deauthenticate it is Unauthenticated, and
\* with the cookie transport the response tells the client to hold no token,
\* also when authenticate had set one earlier in the request.  With the
\* header transport removal is a no-op: the response keeps what an earlier
\* authenticate set, or says nothing.
C18_LastCallWinsCookie ==
    \A r \in Requests :
        /\ lastOp[r].op = "authenticate"
           => /\ State(r) = "Authenticated"
              /\ token[r] = lastOp[r].arg
              /\ signedToken[r] = lastOp[r].ret
              /\ ClientWouldHold(r) = lastOp[r].ret
        /\ lastOp[r].op = "deauthenticate"
           => /\ State(r) = "Unauthenticated"
              /\ engine.clientTokenEngine = "cookie" => ClientWouldHold(r) = Null
              /\ engine.clientTokenEngine = "header" => resTok[r].k # "clear"

C18_Witness ==
    \E r \in Requests :
        /\ engine.clientTokenEngine = "cookie"
        /\ resolved[r] = "Invalid"
        /\ hookLog[r] # << >>
        /\ lastOp[r].op = "authenticate"
        /\ lastOp[r].arg = Payload(PayloadA)
        /\ ops[r] = 2
        /\ State(r) = "Authenticated"
        /\ IsToken(clientTok)
        /\ ClientWouldHold(r) = lastOp[r].ret
        /\ ClientWouldHold(r) # clientTok

\* C19: an authenticate call whose signing fails leaves the request as it
\* was: from the call to the rejection req.token and req.signedToken keep
\* their values and the response is not touched (setToken is not invoked), so
\* a request that was Authenticated stays Authenticated with its old payload
\* and the client keeps its old token.
C19_FailedAuthenticateNoEffect ==
    [][\A r \in Requests :
          (\/ pc[r] = "downstream" /\ pc'[r] = "jwtSign"
           \/ pc[r] = "jwtSign" /\ lastOp'[r].op = "authenticateFailed")
          => /\ token'[r] = token[r]
             /\ signedToken'[r] = signedToken[r]
             /\ resTok'[r] = resTok[r]
             /\ resMod'[r] = resMod[r]
             /\ StateOf(token'[r], signedToken'[r]) = State(r)
             /\ ApplyResponse(resTok'[r], clientTok') = ClientWouldHold(r)
             /\ clientTok' = clientTok]_vars

C19_Witness ==
    \E r \in Requests :
        /\ pc[r] = "downstream"
        /\ lastOp[r].op = "authenticateFailed"
        /\ lastOp[r].arg = Payload(EmptyPayload)
        /\ resolved[r] = "Authenticated"
        /\ ops[r] = 1
        /\ State(r) = "Authenticated"
        /\ token[r] = Payload(PayloadA)
        /\ signedToken[r] = reqTransport[r]
        /\ resTok[r] = NoDirective
        /\ ClientWouldHold(r) = reqTransport[r]

\* C20: when verification fails the steps come in this order: the request is
\* made Invalid (token null, signedToken the raw token) and the transport is
\* asked to remove the token; then the hook is invoked, once, and sees the
\* request Invalid with the removal issued and authenticate / deauthenticate
\* not yet attached; then the two are attached and downstream handlers run.
C20_FailureOrder ==
    [][\A r \in Requests :
          /\ pc[r] = "removeToken"
             => /\ State(r) = "Invalid"
                /\ signedToken[r] = reqTransport[r]
                /\ resTok[r] = removeToken(engine.clientTokenEngine, NoDirective)
                /\ hookLog[r] = << >>
                /\ ~attached[r] /\ ~nextCalled[r]
          /\ hookLog'[r] # hookLog[r] /\ pc'[r] # "idle"
             => /\ pc[r] = "removeToken"
                /\ hookLog'[r] = << signedToken[r] >>
                /\ StateOf(token'[r], signedToken'[r]) = "Invalid"
                /\ resTok'[r] = resTok[r]
                /\ ~attached'[r] /\ ~nextCalled'[r]
          /\ attached'[r] /\ ~attached[r] /\ resolved[r] = "Invalid"
             => /\ hookLog[r] = << signedToken[r] >>
                /\ State(r) = "Invalid"
                /\ nextCalled'[r] /\ ~nextCalled[r]
          /\ nextCalled[r] => attached[r]]_vars

C20_Witness ==
    \E r \in Requests :
        /\ pc[r] = "downstream"
        /\ nextCalled[r] /\ attached[r]
        /\ resolved[r] = "Invalid"
        /\ reqSrc[r].how = "tampered"
        /\ hookLog[r] = << reqTransport[r] >>
        /\ resTok[r].k = "clear"
        /\ ops[r] = 0

====
